---- MODULE Spec2Model ----
(***************************************************************************)
(* LogicRadar analytical core: the lag-correlation scanner                 *)
(* (src/utils/math_utils.py), the driver scan (src/engines/                *)
(* detective_engine.py, src/engines/data_loader.py) and the valuation      *)
(* regressor (src/engines/price_model.py).                                 *)
(*                                                                         *)
(* A float is a record [num, den]: the rational num/den with den > 0,      *)
(* NaN as 0/0 and +-inf as +-1/0.  A pandas Series is a function from its  *)
(* index (a set of integer timestamps, kept in ascending order) to floats; *)
(* a DataFrame is a record [columns, rows] whose rows map each timestamp   *)
(* of the index to a function from column name to float.                   *)
(***************************************************************************)
EXTENDS Integers, Sequences, FiniteSets, TLC

VARIABLES
    stock_series,   \* PriceModel.stock_series (after load_data's dropna)
    drivers,        \* PriceModel.drivers: sequence of [code, lag, series]
    cutoff_date,    \* argument of train
    pc,             \* position of the caller: "init", "loaded", "trained"
    outcome,        \* how train ended: "none", "returned", "raised"
    metrics,        \* first component of train's return value (or None)
    result_df,      \* second component of train's return value (or None)
    df_train,       \* train's local training table (step 2)
    full_X,         \* train's local full feature table (step 4)
    yahoo,          \* what fetch_stock_data returns for each symbol
    fred,           \* what fetch_macro_data returns for each FRED code
    rng,            \* state of the process-wide noise generator (np.random)
    skip_validation,\* argument of analyze
    scan_pc,        \* position of analyze: "idle", "loop", "done"
    scan_i,         \* position of the loop over macro_codes
    findings,       \* analyze's list of findings
    scan_locals,    \* per driver: the locals of its loop iteration
    returned,       \* analyze's return value (None before it returns)
    last_call,      \* the last direct call of a library function: its
                    \* name, arguments and result (NoCall before any)
    scan_log        \* what the caller of analyze has seen: the generator
                    \* state at the call, the validator's answers, and the
                    \* arguments and result of the call before (or NoScan)

train_vars == <<stock_series, drivers, cutoff_date, pc, outcome, metrics,
                result_df, df_train, full_X>>
scan_vars == <<yahoo, fred, rng, skip_validation, scan_pc, scan_i, findings,
               scan_locals, returned>>
call_vars == <<last_call, scan_log>>
vars == <<train_vars, scan_vars, call_vars>>

----------------------------------------------------------------------------
(* Bounds of the model.                                                    *)

MaxT == 4          \* timestamps are 0..MaxT
MaxLagT == 2       \* lags handed to train are 0..MaxLagT
MaxVal == 2        \* target values are 0..MaxVal

Time == 0..MaxT

----------------------------------------------------------------------------
(* Floats.                                                                 *)

NaN == [num |-> 0, den |-> 0]
F(n) == [num |-> n, den |-> 1]
IsNaN(x) == x.den = 0 /\ x.num = 0
IsInf(x) == x.den = 0 /\ x.num # 0
IsFinite(x) == x.den > 0
Sign(n) == IF n > 0 THEN 1 ELSE IF n < 0 THEN -1 ELSE 0
Abs(n) == IF n < 0 THEN -n ELSE n

RECURSIVE Gcd(_, _)
Gcd(a, b) == IF b = 0 THEN Abs(a) ELSE Gcd(b, a % Abs(b))

\* the finite float n/d (d # 0) in lowest terms with a positive denominator
Ratio(n, d) ==
    LET g == Gcd(n, d)
    IN  [num |-> Sign(d) * (n \div g), den |-> Abs(d) \div g]

\* a - b in float arithmetic (NaN propagates)
FSub(a, b) ==
    IF IsNaN(a) \/ IsNaN(b) THEN NaN
    ELSE IF IsInf(a) \/ IsInf(b) THEN
        IF IsInf(a) /\ IsInf(b) /\ a.num = b.num THEN NaN
        ELSE IF IsInf(a) THEN a ELSE [num |-> -b.num, den |-> 0]
    ELSE Ratio(a.num * b.den - b.num * a.den, a.den * b.den)

\* a + b and a * b on finite floats
FAdd(a, b) == Ratio(a.num * b.den + b.num * a.den, a.den * b.den)
FMul(a, b) == Ratio(a.num * b.num, a.den * b.den)

\* a / b in float arithmetic: x/0 is +-inf, 0/0 is NaN
FDiv(a, b) ==
    IF IsNaN(a) \/ IsNaN(b) THEN NaN
    ELSE IF IsInf(a) \/ IsInf(b) THEN
        IF IsInf(a) /\ IsInf(b) THEN NaN
        ELSE IF IsInf(b) THEN F(0)
        ELSE [num |-> a.num * (IF b.num < 0 THEN -1 ELSE 1), den |-> 0]
    ELSE LET n == a.num * b.den
             d == a.den * b.num
         IN  IF d = 0 THEN [num |-> Sign(n), den |-> 0] ELSE Ratio(n, d)

\* a < b on finite floats
FLess(a, b) == a.num * b.den < b.num * a.den

\* |a| on finite floats
FAbs(a) == [num |-> Abs(a.num), den |-> a.den]

\* a/b > c/d for naturals a, c and positive b, d, by comparing the continued
\* fractions (no product is formed, so nothing overflows)
RECURSIVE FracGreater(_, _, _, _)
FracGreater(a, b, c, d) ==
    IF a \div b # c \div d THEN a \div b > c \div d
    ELSE IF a % b = 0 THEN FALSE
    ELSE IF c % d = 0 THEN TRUE
    ELSE FracGreater(d, c % d, b, a % b)

----------------------------------------------------------------------------
(* pandas Series and DataFrame operations used by the code.                *)

EmptySeries == [t \in {} |-> NaN]

\* the function f itself, held as a table of its values
Tab(f) == f @@ <<>>

\* position (1-based) of timestamp t in the ascending index idx
Rank(idx, t) == Cardinality({u \in idx : u <= t})

\* the elements of S in lo..hi in ascending order, by halving the range
RECURSIVE SortedRange(_, _, _)
SortedRange(S, lo, hi) ==
    IF lo > hi THEN <<>>
    ELSE IF lo = hi THEN (IF lo \in S THEN <<lo>> ELSE <<>>)
    ELSE LET mid == (lo + hi) \div 2
         IN  SortedRange(S, lo, mid) \o SortedRange(S, mid + 1, hi)

SetMax(S) == CHOOSE x \in S : \A y \in S : y <= x
SetMin(S) == CHOOSE x \in S : \A y \in S : x <= y

\* the ascending index idx as a sequence of timestamps
SortedIndex(idx) ==
    IF idx = {} THEN <<>> ELSE SortedRange(idx, SetMin(idx), SetMax(idx))

\* the timestamps at which series s holds a value
Known(s) == {t \in DOMAIN s : ~IsNaN(s[t])}

\* Series.dropna()
DropNaSeries(s) == Tab([t \in {u \in DOMAIN s : ~IsNaN(s[u])} |-> s[t]])

\* mutant: the shift moves values up instead of down (shift(-lag))
ShiftRows_Backward(s, lag) ==
    LET idx == DOMAIN s
        ord == SortedIndex(idx)
    IN  Tab([t \in idx |->
            LET k == Rank(idx, t) + lag
            IN  IF k >= 1 /\ k <= Len(ord) THEN s[ord[k]] ELSE NaN])

\* Series.shift(lag) with no freq: values move down lag rows, the index stays
ShiftRows(s, lag) ==
    LET idx == DOMAIN s
        ord == SortedIndex(idx)
    IN  Tab([t \in idx |->
            LET k == Rank(idx, t) - lag
            IN  IF k >= 1 /\ k <= Len(ord) THEN s[ord[k]] ELSE NaN])

\* Series.to_frame(name) / pd.DataFrame(series)
ToFrame(s, name) ==
    [columns |-> <<name>>,
     rows    |-> Tab([t \in DOMAIN s |-> Tab([c \in {name} |-> s[t]])])]

ColSet(df) == {df.columns[i] : i \in 1..Len(df.columns)}
Index(df) == DOMAIN df.rows

\* DataFrame.empty: some axis has length 0
FrameEmpty(df) == Index(df) = {} \/ Len(df.columns) = 0

\* df.join(series named name, how): how is "outer" or "left"
JoinSeries(df, s, name, how) ==
    LET idx == IF how = "outer" THEN Index(df) \cup DOMAIN s ELSE Index(df)
        cs  == ColSet(df) \cup {name}
    IN  [columns |-> Append(df.columns, name),
         rows    |-> Tab([t \in idx |-> Tab([c \in cs |->
                        IF c = name
                        THEN IF t \in DOMAIN s THEN s[t] ELSE NaN
                        ELSE IF t \in Index(df) THEN df.rows[t][c] ELSE NaN])])]

\* df.loc[cutoff:] on an ascending index
LocFrom(df, cutoff) ==
    [columns |-> df.columns,
     rows    |-> Tab([t \in {u \in Index(df) : u >= cutoff} |-> df.rows[t]])]

\* DataFrame.dropna(): keep the rows with no NaN in any column
DropNaFrame(df) ==
    [columns |-> df.columns,
     rows    |-> Tab([t \in {u \in Index(df) :
                               \A c \in ColSet(df) : ~IsNaN(df.rows[u][c])}
                      |-> df.rows[t]])]

\* df[[c1, ...]]
Select(df, cols) ==
    [columns |-> cols,
     rows    |-> Tab([t \in Index(df) |->
                    Tab([c \in {cols[i] : i \in 1..Len(cols)} |-> df.rows[t][c]])])]

\* df[c]
Column(df, c) == Tab([t \in Index(df) |-> df.rows[t][c]])

\* df[c] = s, for a series s over the index of df
SetColumn(df, c, s) ==
    [columns |-> df.columns,
     rows    |-> Tab([t \in Index(df) |-> Tab([k \in ColSet(df) |->
                    IF k = c THEN s[t] ELSE df.rows[t][k]])])]

\* len(df)
NRows(df) == Cardinality(Index(df))

\* df.tail(k): the last k rows
TailFrame(df, k) ==
    [columns |-> df.columns,
     rows    |-> Tab([t \in {u \in Index(df) :
                               Cardinality({w \in Index(df) : w >= u}) <= k}
                      |-> df.rows[t]])]

\* pd.concat([a, b], axis=1) with columns named ca, cb: the union of the indexes
Concat(a, ca, b, cb) == JoinSeries(ToFrame(a, ca), b, cb, "outer")

\* Series.interpolate(method='time'): a missing value between two known ones
\* lies on the line through them; after the last known value it repeats that
\* value; before the first known value it stays missing
InterpolateTime(s) ==
    LET K == {u \in DOMAIN s : ~IsNaN(s[u])}
    IN  Tab([t \in DOMAIN s |->
            IF t \in K THEN s[t]
            ELSE LET before == {u \in K : u < t}
                     after  == {u \in K : u > t}
                 IN  IF before = {} THEN NaN
                     ELSE IF after = {} THEN s[SetMax(before)]
                     ELSE LET t1 == SetMax(before)
                              t2 == SetMin(after)
                          IN  FAdd(s[t1], FMul(FSub(s[t2], s[t1]),
                                               Ratio(t - t1, t2 - t1)))])

\* Series.ffill()
FFill(s) ==
    Tab([t \in DOMAIN s |->
        LET before == {u \in DOMAIN s : u <= t /\ ~IsNaN(s[u])}
        IN  IF before = {} THEN NaN ELSE s[SetMax(before)]])

\* Series.bfill()
BFill(s) ==
    Tab([t \in DOMAIN s |->
        LET after == {u \in DOMAIN s : u >= t /\ ~IsNaN(s[u])}
        IN  IF after = {} THEN NaN ELSE s[SetMin(after)]])

----------------------------------------------------------------------------
(* sklearn LinearRegression.fit / predict and r2_score, in exact           *)
(* arithmetic.  The library centres X and y and solves the least-squares   *)
(* problem; a rank-deficient problem gets the minimum-norm solution.       *)

\* sum of the integers f[x] for the x of S in lo..hi, by halving the range
RECURSIVE FnSumRange(_, _, _, _)
FnSumRange(f, S, lo, hi) ==
    IF lo > hi THEN 0
    ELSE IF lo = hi THEN (IF lo \in S THEN f[lo] ELSE 0)
    ELSE LET mid == (lo + hi) \div 2
         IN  FnSumRange(f, S, lo, mid) + FnSumRange(f, S, mid + 1, hi)

\* sum of the integers f[x], x in the set of integers S
FnSumOver(f, S) == IF S = {} THEN 0 ELSE FnSumRange(f, S, SetMin(S), SetMax(S))

FnSum(f) == FnSumOver(f, DOMAIN f)

\* determinant of the k x k integer matrix M (Laplace expansion, first row)
RECURSIVE Det(_, _)
Det(M, k) ==
    IF k = 0 THEN 1
    ELSE FnSum([j \in 1..k |->
            (IF j % 2 = 1 THEN 1 ELSE -1) * M[1][j] *
            Det([r \in 1..(k-1) |-> [c \in 1..(k-1) |->
                    M[r + 1][IF c < j THEN c ELSE c + 1]]], k - 1)])

\* sum of the finite floats f[x], x in DOMAIN f
RECURSIVE FSumRange(_, _, _, _)
FSumRange(f, S, lo, hi) ==
    IF lo > hi THEN F(0)
    ELSE IF lo = hi THEN (IF lo \in S THEN f[lo] ELSE F(0))
    ELSE LET mid == (lo + hi) \div 2
         IN  FAdd(FSumRange(f, S, lo, mid), FSumRange(f, S, mid + 1, hi))

FSumOver(f, S) == IF S = {} THEN F(0) ELSE FSumRange(f, S, SetMin(S), SetMax(S))

FSum(f) == FSumOver(f, DOMAIN f)

\* the fitted model [cols, coef, intercept]: coef_[j] and intercept_ as floats.
\* X: the training rows of the driver columns cols, y: column Y.  With n
\* times the centred Gram matrix C and moment vector cy, coef solves
\* C coef = cy (Cramer's rule); a singular C of rank one, the only singular
\* case with at most two columns, has the minimum-norm solution cy / trace(C).
Fit(df, cols) ==
    LET R  == Index(df)
        n  == Cardinality(R)
        k  == Len(cols)
        X(t, j) == df.rows[t][cols[j]].num
        Y(t)    == df.rows[t]["Y"].num
        Sx == [j \in 1..k |-> FnSum([t \in R |-> X(t, j)])]
        Sy == FnSum([t \in R |-> Y(t)])
        C  == [i \in 1..k |-> [j \in 1..k |->
                 n * FnSum([t \in R |-> X(t, i) * X(t, j)]) - Sx[i] * Sx[j]]]
        cy == [j \in 1..k |-> n * FnSum([t \in R |-> X(t, j) * Y(t)]) - Sx[j] * Sy]
        D  == Det(C, k)
        T  == FnSum([i \in 1..k |-> C[i][i]])
        coef == [j \in 1..k |->
                   IF D # 0
                   THEN Ratio(Det([r \in 1..k |-> [c \in 1..k |->
                                     IF c = j THEN cy[r] ELSE C[r][c]]], k), D)
                   ELSE IF T # 0 THEN Ratio(cy[j], T) ELSE F(0)]
    IN  [cols      |-> cols,
         coef      |-> coef,
         \* intercept_ = mean(y) - sum of coef_[j] * mean(x_j)
         intercept |-> FSub(Ratio(Sy, n),
                            FSum([j \in 1..k |-> FMul(coef[j], Ratio(Sx[j], n))]))]

\* model.predict on one row of driver values
Predict(m, row) ==
    FAdd(m.intercept,
         FSum([j \in 1..Len(m.cols) |-> FMul(m.coef[j], row[m.cols[j]])]))

\* r2_score(y, model.predict(X)) on the training rows: NaN for fewer than
\* two samples, and 1.0 or 0.0 for a constant y
R2Score(df, m) ==
    LET R  == Index(df)
        n  == Cardinality(R)
        Y(t) == df.rows[t]["Y"]
        res(t) == FSub(Y(t), Predict(m, df.rows[t]))
        Sy == FnSum([t \in R |-> Y(t).num])
        ssres == FSum([t \in R |-> FMul(res(t), res(t))])
        sstot == Ratio(n * FnSum([t \in R |-> Y(t).num * Y(t).num]) - Sy * Sy, n)
    IN  IF n < 2 THEN NaN
        ELSE IF sstot.num = 0 THEN (IF ssres.num = 0 THEN F(1) ELSE F(0))
        ELSE FSub(F(1), FDiv(ssres, sstot))

----------------------------------------------------------------------------
(* PriceModel (src/engines/price_model.py).                                *)

\* Python's None, as a record so that it compares with tables and metrics
None == [none |-> TRUE]

\* the driver's shifted series of train lines 59-60 and 96-98
Shifted(d) == ShiftRows(d.series, d.lag)

\* train lines 46-64: the target frame joined with every shifted driver
RECURSIVE JoinDrivers(_, _, _)
JoinDrivers(df, ds, i) ==
    IF i > Len(ds) THEN df
    ELSE JoinDrivers(JoinSeries(df, Shifted(ds[i]), ds[i].code, "outer"), ds, i + 1)

\* train lines 92-102: the full feature table of the shifted drivers alone
RECURSIVE FullDf(_, _, _)
FullDf(full_df, ds, i) ==
    IF i > Len(ds) THEN full_df
    ELSE FullDf(IF FrameEmpty(full_df)
                THEN ToFrame(Shifted(ds[i]), ds[i].code)
                ELSE JoinSeries(full_df, Shifted(ds[i]), ds[i].code, "outer"),
                ds, i + 1)

EmptyFrame == [columns |-> <<>>, rows |-> [t \in {} |-> [c \in {} |-> NaN]]]

DriverCols(ds) == [i \in 1..Len(ds) |-> ds[i].code]

\* train lines 37-50: max_lag starts at 0 and follows the largest lag
RECURSIVE MaxLagOf(_, _, _)
MaxLagOf(ds, i, m) ==
    IF i > Len(ds) THEN m
    ELSE MaxLagOf(ds, i + 1, IF ds[i].lag > m THEN ds[i].lag ELSE m)

\* mutant: the training table keeps the rows before the cutoff
TrainTable_NoCutoff(stock, ds, cutoff) ==
    DropNaFrame(JoinDrivers(ToFrame(stock, "Y"), ds, 1))

\* train line 68: df.loc[cutoff_date:].dropna()
TrainTable(stock, ds, cutoff) ==
    DropNaFrame(LocFrom(JoinDrivers(ToFrame(stock, "Y"), ds, 1), cutoff))

\* mutant: the full feature table is not cut at the cutoff
FullX_NoCutoff(ds, cutoff) == DropNaFrame(FullDf(EmptyFrame, ds, 1))

\* train lines 105-108: full_df.loc[cutoff_date:].dropna()
FullX(ds, cutoff) == DropNaFrame(LocFrom(FullDf(EmptyFrame, ds, 1), cutoff))

\* mutant: the gap is taken relative to Actual
Deviation_OverActual(actual, fair) == FDiv(FSub(actual, fair), actual)

\* train line 124: Deviation of one row
Deviation(actual, fair) == FDiv(FSub(actual, fair), fair)

\* train lines 111-124: Fair_Value, the left join with Actual, Deviation
ResultDf(fullx, m, stock) ==
    [columns |-> <<"Fair_Value", "Actual", "Deviation">>,
     rows    |-> [t \in Index(fullx) |->
        LET fair   == Predict(m, fullx.rows[t])
            actual == IF t \in DOMAIN stock THEN stock[t] ELSE NaN
        IN  [c \in {"Fair_Value", "Actual", "Deviation"} |->
                IF c = "Fair_Value" THEN fair
                ELSE IF c = "Actual" THEN actual
                ELSE Deviation(actual, fair)]]]

\* train lines 126-133
Metrics(dft, m, ds) ==
    [R2           |-> R2Score(dft, m),
     Intercept    |-> m.intercept,
     Coefficients |-> [c \in {ds[i].code : i \in 1..Len(ds)} |->
                         LET j == CHOOSE j \in 1..Len(ds) : ds[j].code = c
                         IN  m.coef[j]],
     Max_Lag      |-> MaxLagOf(ds, 1, 0)]

----------------------------------------------------------------------------
(* Lag-correlation scanner (src/utils/math_utils.py).                      *)

\* A correlation coefficient r is kept exactly, as its sign and r^2 = num/den
\* in lowest terms; nan marks a NaN result.
CorrNaN == [nan |-> TRUE, sgn |-> 0, num |-> 0, den |-> 1]
CorrZero == [nan |-> FALSE, sgn |-> 0, num |-> 0, den |-> 1]

\* the coefficient cov / sqrt(vv) for a covariance cov and vv = var_x * var_y
MkCorr(cov, vv) ==
    LET g == Gcd(cov * cov, vv)
    IN  [nan |-> FALSE, sgn |-> Sign(cov),
         num |-> (cov * cov) \div g, den |-> vv \div g]

\* least common multiple of the denominators of the finite floats f[t], t in S
Lcm(a, b) == (a \div Gcd(a, b)) * b

RECURSIVE LcmDenRange(_, _, _, _)
LcmDenRange(f, S, lo, hi) ==
    IF lo > hi THEN 1
    ELSE IF lo = hi THEN (IF lo \in S THEN f[lo].den ELSE 1)
    ELSE LET mid == (lo + hi) \div 2
         IN  Lcm(LcmDenRange(f, S, lo, mid), LcmDenRange(f, S, mid + 1, hi))

LcmDen(f, S) == IF S = {} THEN 1 ELSE LcmDenRange(f, S, SetMin(S), SetMax(S))

\* the values of s on S, moved by a common offset and multiplied by a common
\* positive factor so that they are integers (Pearson's r is unchanged by both)
IntImage(s, S) ==
    LET ref == s[CHOOSE t \in S : TRUE]
        d   == Tab([t \in S |-> FSub(s[t], ref)])
        l   == LcmDen(d, S)
    IN  Tab([t \in S |-> d[t].num * (l \div d[t].den)])

\* Series.std() == 0: at least two values, all equal (one value gives NaN)
StdIsZero(s) ==
    LET K == Known(s)
    IN  /\ Cardinality(K) >= 2
        /\ \A t \in K : s[t] = s[CHOOSE u \in K : TRUE]

\* a.corr(b): Pearson's r over the timestamps where both series hold a value;
\* NaN with fewer than two such timestamps or with a constant side
\* Pearson's r from the count n and the sums of x, y, xy, xx, yy
CorrOfSums(n, Sx, Sy, Sxy, Sxx, Syy) ==
    LET cov == n * Sxy - Sx * Sy
        vx  == n * Sxx - Sx * Sx
        vy  == n * Syy - Sy * Sy
    IN  IF vx = 0 \/ vy = 0 THEN CorrNaN ELSE MkCorr(cov, vx * vy)

\* sum of x[t] * y[t] over S
DotSum(x, y, S) == FnSum(Tab([t \in S |-> x[t] * y[t]]))

\* Pearson's r of the integer samples x and y over S
IntCorr(x, y, S) ==
    CorrOfSums(Cardinality(S), FnSum(x), FnSum(y),
               DotSum(x, y, S), DotSum(x, x, S), DotSum(y, y, S))

SeriesCorr(a, b) ==
    LET S == {t \in DOMAIN a \cap DOMAIN b : ~IsNaN(a[t]) /\ ~IsNaN(b[t])}
    IN  IF Cardinality(S) < 2 THEN CorrNaN
        ELSE IntCorr(IntImage(a, S), IntImage(b, S), S)

\* line 17
Lags == <<0, 5, 10, 20, 40, 60>>

\* lines 24-28: the score of one lag, from the driver shifted by that lag
ShiftedCorr(target_series, shifted_driver) ==
    IF StdIsZero(shifted_driver) \/ StdIsZero(target_series)
    THEN CorrZero
    ELSE SeriesCorr(target_series, shifted_driver)

\* lines 21-28
LagCorr(target_series, driver_series, lag) ==
    ShiftedCorr(target_series, ShiftRows(driver_series, lag))

\* mutant: a later lag with an equal score replaces the best
AbsGreater_OrEqual(corr, max_corr) ==
    ~FracGreater(max_corr.num, max_corr.den, corr.num, corr.den)

\* line 33: abs(corr) > abs(max_corr)
AbsGreater(corr, max_corr) ==
    FracGreater(corr.num, corr.den, max_corr.num, max_corr.den)

\* mutant: a NaN score is not skipped
Update_NoSkip(best, lag, corr) ==
    IF corr.nan \/ AbsGreater(corr, best.max_corr)
    THEN [best_lag |-> lag, max_corr |-> corr]
    ELSE best

\* lines 30-35: the running best after a lag that scored corr
Update(best, lag, corr) ==
    IF corr.nan THEN best
    ELSE IF AbsGreater(corr, best.max_corr)
         THEN [best_lag |-> lag, max_corr |-> corr]
         ELSE best

\* lines 19-35: the loop over the lags from position i, best = the running
\* [best_lag, max_corr]
RECURSIVE LagLoop(_, _, _, _)
LagLoop(target_series, driver_series, i, best) ==
    IF i > Len(Lags) THEN best
    ELSE LagLoop(target_series, driver_series, i + 1,
                 Update(best, Lags[i],
                        LagCorr(target_series, driver_series, Lags[i])))

\* mutant: the running best starts as NaN
compute_max_lag_correlation_NaNStart(target_series, driver_series, max_lookback) ==
    LagLoop(target_series, driver_series, 1,
            [best_lag |-> 0, max_corr |-> CorrNaN])

\* lines 4-37; max_lookback is accepted and never read
compute_max_lag_correlation(target_series, driver_series, max_lookback) ==
    LagLoop(target_series, driver_series, 1,
            [best_lag |-> 0, max_corr |-> CorrZero])

----------------------------------------------------------------------------
(* Series aligner (src/engines/data_loader.py).                            *)

PreRegime == 3     \* days of history before the regime start
ExtraRows == 5     \* rows of the longest target beyond the short window
MacroStep == 2     \* days between two observations of a FRED series
MaxSeed == 1       \* the noise generator's states are 0..MaxSeed
MacroBase == 1000  \* level of the positive FRED series

\* Series.mean(): missing values are skipped
Mean(s) ==
    LET K == Known(s)
    IN  IF K = {} THEN NaN
        ELSE FDiv(FSum([t \in K |-> s[t]]), F(Cardinality(K)))

\* The draws of np.random.normal(0, scale) are scale * z for standard normal
\* z; any real can be drawn.  The model draws, for the row at timestamp t in
\* generator state g, one of -1, 0, 1: with a mean near MacroBase that is
\* within about one scale = mean / 1000 of 0.
NoiseBase == <<0, -1, 1, -1, 1>>
Noise(g, t) ==
    IF g = 0 THEN NoiseBase[(t % 5) + 1] ELSE ((t * t + g * t) % 3) - 1

\* the generator's state after one call
NextRng(g) == (g + 1) % (MaxSeed + 1)

\* fetch_and_align lines 68-104 on the fetched series stock and macro, in
\* generator state g: [raised, df, rng]
\* line 100: the filled series plus the noise drawn with scale mean / 1000
\* (a NaN scale draws NaN, a zero scale draws zeros)
AddNoise(filled, mean, g) ==
    Tab([t \in DOMAIN filled |->
        IF IsNaN(mean) THEN NaN
        ELSE IF mean.num = 0 THEN filled[t]
        ELSE FAdd(filled[t], F(Noise(g, t)))])

\* mutant: the exception leaves the generator advanced
Jitter_DrawsFirst(df, filled, mean, g) ==
    IF ~IsNaN(mean) /\ mean.num < 0
    THEN [raised |-> TRUE, df |-> EmptyFrame, rng |-> NextRng(g)]
    ELSE [raised |-> FALSE,
          df     |-> DropNaFrame(SetColumn(df, "Macro",
                                           AddNoise(filled, mean, g))),
          rng    |-> NextRng(g)]

\* lines 98-104, from the joined frame, its filled Macro column and the mean
\* of that column
Jitter(df, filled, mean, g) ==
    IF ~IsNaN(mean) /\ mean.num < 0
    THEN \* line 99: np.random.normal raises ValueError for scale < 0
         [raised |-> TRUE, df |-> EmptyFrame, rng |-> g]
    ELSE [raised |-> FALSE,
          df     |-> DropNaFrame(SetColumn(df, "Macro",
                                           AddNoise(filled, mean, g))),
          rng    |-> NextRng(g)]

\* lines 91-104, from the joined frame and its filled Macro column
FillAndJitter(df, filled, g) == Jitter(df, filled, Mean(filled), g)

\* lines 82-104, from the joined and sorted frame
AlignFrame(df, g) ==
    FillAndJitter(df, BFill(FFill(InterpolateTime(Column(df, "Macro")))), g)

\* mutant: only the target is tested for emptiness
fetch_and_align_StockOnly(stock, macro, g) ==
    IF DOMAIN stock = {}
    THEN [raised |-> FALSE, df |-> EmptyFrame, rng |-> g]
    ELSE AlignFrame(Concat(stock, "Stock", macro, "Macro"), g)

\* lines 68-104
fetch_and_align(stock, macro, g) ==
    IF DOMAIN stock = {} \/ DOMAIN macro = {}
    THEN [raised |-> FALSE, df |-> EmptyFrame, rng |-> g]
    ELSE AlignFrame(Concat(stock, "Stock", macro, "Macro"), g)

----------------------------------------------------------------------------
(* Driver scan (src/engines/detective_engine.py).                          *)

Ticker == "1605.TW"

\* the universe of candidate drivers handed to the constructor
macro_codes == <<"HG=F", "ALI=F", "PNICKUSDM", "T10Y2Y">>
CodeSet == {macro_codes[i] : i \in 1..Len(macro_codes)}

\* line 61: '=' in code or code == 'VALE'
is_yahoo(code) == code \in {"HG=F", "ALI=F", "VALE", "GC=F", "SI=F", "CL=F"}

MinObs == 30            \* lines 76 and 82
TailRows == 60          \* line 93
ShortMin == 20          \* line 94
ShortLookback == 10     \* line 95
DefaultLookback == 60   \* math_utils.py line 4
RoundUnits == 10000     \* lines 111-112: round(x, 4)

\* line 80: '2020-01-01' on the model's day axis
RegimeStart == PreRegime

\* line 108: 0.15
ScoreThreshold == [num |-> 3, den |-> 20]

\* line 108: the hard-coded forced driver
AlwaysInclude == {"PNICKUSDM"}

\* mutant: exactly MinObs rows are too few
TooShort_Inclusive(df) == FrameEmpty(df) \/ NRows(df) <= MinObs

\* lines 76 and 82: df.empty or len(df) < 30
TooShort(df) == FrameEmpty(df) \/ NRows(df) < MinObs

\* line 102: max(abs(max_corr), abs(recent_corr)), as the square [num, den]
FinalScore(max_corr, recent_corr) ==
    IF FracGreater(recent_corr.num, recent_corr.den, max_corr.num, max_corr.den)
    THEN [num |-> recent_corr.num, den |-> recent_corr.den]
    ELSE [num |-> max_corr.num, den |-> max_corr.den]

\* line 108: final_score > 0.15 or code == 'PNICKUSDM'
Keeps(final_score, code) ==
    \/ FracGreater(final_score.num, final_score.den,
                   ScoreThreshold.num * ScoreThreshold.num,
                   ScoreThreshold.den * ScoreThreshold.den)
    \/ code \in AlwaysInclude

\* the largest k in lo..hi with (2k - 1) / (2 RoundUnits) <= |corr|
RECURSIVE RoundSearch(_, _, _)
RoundSearch(corr, lo, hi) ==
    IF lo = hi THEN lo
    ELSE LET mid == (lo + hi + 1) \div 2
         IN  IF FracGreater((2 * mid - 1) * (2 * mid - 1),
                            4 * RoundUnits * RoundUnits, corr.num, corr.den)
             THEN RoundSearch(corr, lo, mid - 1)
             ELSE RoundSearch(corr, mid, hi)

\* lines 111-112: round(x, 4) if not np.isnan(x) else 0.0, as a float; a
\* value halfway between two neighbours goes to the even one
Round4(corr) ==
    IF corr.nan THEN F(0)
    ELSE LET k    == RoundSearch(corr, 0, RoundUnits)
             half == /\ k >= 1
                     /\ Ratio((2 * k - 1) * (2 * k - 1), 4 * RoundUnits * RoundUnits)
                            = [num |-> corr.num, den |-> corr.den]
         IN  Ratio(corr.sgn * (IF half /\ k % 2 = 1 THEN k - 1 ELSE k), RoundUnits)

\* lines 59-108: one iteration of the loop, for driver code with the data
\* sources ysrc, fsrc and the generator state g
Skipped(status, df, g) ==
    [status |-> status, df |-> df, long |-> None, short |-> None,
     keep |-> FALSE, rng |-> g]

\* lines 102-108, from the results of the two windows
Scored(code, df, long, short, g) ==
    [status |-> "scored", df |-> df, long |-> long, short |-> short,
     keep   |-> Keeps(FinalScore(long.max_corr, short.max_corr), code),
     rng    |-> g]

\* lines 93-97: the score of the last TailRows rows
ShortWindow(recent_df) ==
    IF NRows(recent_df) > ShortMin
    THEN compute_max_lag_correlation(Column(recent_df, "Stock"),
                                     Column(recent_df, "Macro"), ShortLookback)
    ELSE [best_lag |-> 0, max_corr |-> CorrZero]

\* line 90: the score of the whole regime table
LongWindow(df) ==
    compute_max_lag_correlation(Column(df, "Stock"), Column(df, "Macro"),
                                DefaultLookback)

\* lines 82-108, on the regime-filtered table
ScoreRegime(code, df, g) ==
    IF TooShort(df)
    THEN Skipped("short", df, g)                              \* line 82
    ELSE Scored(code, df, LongWindow(df),
                ShortWindow(TailFrame(df, TailRows)), g)

\* lines 76-108, on the outcome [raised, df, rng] of the alignment
ScoreAligned(code, aligned) ==
    IF aligned.raised
    THEN Skipped("error", None, aligned.rng)                  \* lines 119-121
    ELSE IF TooShort(aligned.df)
    THEN Skipped("short", aligned.df, aligned.rng)            \* line 76
    ELSE ScoreRegime(code, LocFrom(aligned.df, RegimeStart), aligned.rng)

\* lines 70-71: the manual alignment of a Yahoo driver
YahooAlign(stock, macro, g) ==
    [raised |-> FALSE,
     df     |-> DropNaFrame(Concat(stock, "Stock", macro, "Macro")),
     rng    |-> g]

scan_one(code, ysrc, fsrc, g) ==
    IF is_yahoo(code)
    THEN IF DOMAIN ysrc[code] = {}
         THEN Skipped("no_data", None, g)                     \* line 65
         ELSE ScoreAligned(code, YahooAlign(ysrc[Ticker], ysrc[code], g))
    ELSE ScoreAligned(code, fetch_and_align(ysrc[Ticker], fsrc[code], g))

\* lines 109-115
\* mutant: the finding also stores the short window's lag
Finding_WithShortLag(code, r) ==
    [code        |-> code,
     max_corr    |-> Round4(r.long.max_corr),
     recent_corr |-> Round4(r.short.max_corr),
     best_lag    |-> r.long.best_lag,
     recent_lag  |-> r.short.best_lag,
     sample_size |-> NRows(r.df)]

\* lines 109-115: the finding appended for a kept driver
Finding(code, r) ==
    [code        |-> code,
     max_corr    |-> Round4(r.long.max_corr),
     recent_corr |-> Round4(r.short.max_corr),
     best_lag    |-> r.long.best_lag,
     sample_size |-> NRows(r.df)]

\* line 124: the sort key of a finding
SortKey(f) ==
    LET a == FAbs(f.max_corr)
        b == FAbs(f.recent_corr)
    IN  IF FLess(a, b) THEN b ELSE a

\* mutant: f is placed ahead of the findings with an equal key
InsertFinding_Unstable(sorted, f) ==
    LET k == Cardinality({i \in 1..Len(sorted) :
                            FLess(SortKey(f), SortKey(sorted[i]))})
    IN  SubSeq(sorted, 1, k) \o <<f>> \o SubSeq(sorted, k + 1, Len(sorted))

\* f placed behind the findings of a descending list whose key is not smaller
InsertFinding(sorted, f) ==
    LET k == Cardinality({i \in 1..Len(sorted) :
                            ~FLess(SortKey(sorted[i]), SortKey(f))})
    IN  SubSeq(sorted, 1, k) \o <<f>> \o SubSeq(sorted, k + 1, Len(sorted))

\* line 124: findings.sort(key=..., reverse=True), a stable sort
RECURSIVE SortFindings(_)
SortFindings(fs) ==
    IF fs = <<>> THEN <<>>
    ELSE InsertFinding(SortFindings(SubSeq(fs, 1, Len(fs) - 1)), fs[Len(fs)])

\* lines 135-142: the finding with the verdict of the semantic check
Judged(f, is_logical, logic_reason) ==
    Tab([k \in DOMAIN f \cup {"is_logical", "logic_reason"} |->
            IF k = "is_logical" THEN is_logical
            ELSE IF k = "logic_reason" THEN logic_reason
            ELSE f[k]])

\* the locals of a loop iteration that has not run
Pending == Skipped("pending", None, 0)

----------------------------------------------------------------------------
(* Inputs handed to load_data: a target and a driver selection.            *)

\* a daily target over 0..last with values (a + b*t) mod (MaxVal+1) and no
\* observation (NaN) at timestamp gap
TargetInput(last, a, b, gap) ==
    [t \in 0..last |-> IF t = gap THEN NaN ELSE F((a + b * t) % (MaxVal + 1))]

TargetInputs ==
    {TargetInput(last, a, b, gap) :
        last \in 1..(MaxT - 1), a \in {0, MaxVal}, b \in {0, 1}, gap \in {-1, 1}}

\* a daily driver known over s..e
DailySeries(s, e) == [t \in s..e |-> F(t + 1)]

\* a low-frequency driver known every second day
SparseSeries == [t \in {u \in Time : u % 2 = 0} |-> F(((t * t) % 3) + 1)]

\* a daily driver with one missing value
HoleSeries == [t \in Time |-> IF t = 1 THEN NaN ELSE F(((t * t) % 3) + 1)]

DailyInputs == {DailySeries(0, e) : e \in 1..MaxT} \cup {DailySeries(MaxT - 1, MaxT)}
MacroInputs == {SparseSeries, HoleSeries, EmptySeries}

\* the driver selections: at most one daily and one low-frequency driver;
\* the caller is free to give a daily driver a negative lag
Selections ==
    LET macro == {<<>>} \cup {<<[code |-> "PNICKUSDM", lag |-> l, series |-> s]>> :
                                 l \in 0..MaxLagT, s \in MacroInputs}
        daily == {<<>>} \cup {<<[code |-> "HG=F", lag |-> l, series |-> s]>> :
                                 l \in -1..MaxLagT, s \in DailyInputs}
    IN  {m \o d : m \in macro, d \in daily}

Cutoffs == {0, 2}

----------------------------------------------------------------------------
(* Inputs of the scan: what the data providers return.                     *)

StockWave == <<0, 1, 2, 1, 0>>
OrthWave == <<1, 0, 2, 0, 2>>
Wave(w, t) == w[(t % 5) + 1]

\* the target's price on day t: a five-day wave after an opposite start
StockPrice(t) ==
    IF t < RegimeStart + 5 THEN 2 - Wave(StockWave, t) ELSE Wave(StockWave, t)

\* the drivers are known some days past the longest target
ScanHorizon == PreRegime + TailRows + ExtraRows + 5
ScanDays == 0..ScanHorizon

\* a day on which the target's market is closed
Holiday == {RegimeStart + 8}

StockSeries(last, closed) == [t \in (0..last) \ closed |-> F(StockPrice(t))]

\* the target's last day: fewer than MinObs rows in all, fewer than MinObs
\* after the regime start, exactly MinObs after it, more than TailRows after it
StockLasts ==
    {MinObs - 2, MinObs + PreRegime - 2, MinObs + PreRegime - 1,
     PreRegime + TailRows + ExtraRows - 1}

StockInputs ==
    {EmptySeries} \cup
    {StockSeries(last, closed) : last \in StockLasts, closed \in {{}, Holiday}}

\* daily drivers: the target's wave five days ahead, and a wave uncorrelated
\* with the target's
LeadSeries == [t \in ScanDays |-> F(StockPrice(t + 5))]
OrthSeries == [t \in ScanDays |-> F(Wave(OrthWave, t))]

\* FRED drivers, observed every MacroStep days
MacroDays == {t \in ScanDays : t % MacroStep = 0}
FlatMacro == [t \in MacroDays |-> F(MacroBase)]
StockLikeMacro == [t \in MacroDays |-> F(MacroBase + StockPrice(t))]
NegativeMacro == [t \in MacroDays |-> F(-1 - Wave(OrthWave, t))]
ZeroMacro == [t \in MacroDays |-> F(0)]

\* the series of every driver of the universe, as the providers return them
Universe(hg, ali, nickel, spread) ==
    [c \in CodeSet |-> IF c = "HG=F" THEN hg
                       ELSE IF c = "ALI=F" THEN ali
                       ELSE IF c = "PNICKUSDM" THEN nickel ELSE spread]

Universes ==
    {Universe(LeadSeries, LeadSeries, FlatMacro, NegativeMacro),
     Universe(OrthSeries, EmptySeries, EmptySeries, ZeroMacro),
     Universe(LeadSeries, LeadSeries, StockLikeMacro, StockLikeMacro),
     Universe(EmptySeries, OrthSeries, NegativeMacro, StockLikeMacro)}

\* fetch_stock_data for the ticker and the Yahoo codes of the universe
YahooSource(stock, u) ==
    [s \in {Ticker} \cup {c \in CodeSet : is_yahoo(c)} |->
        IF s = Ticker THEN stock ELSE u[s]]

\* fetch_macro_data for the FRED codes of the universe
FredSource(u) == [c \in {c \in CodeSet : ~is_yahoo(c)} |-> u[c]]

----------------------------------------------------------------------------
(* The caller of the valuation regressor: load_data, then train.           *)

\* load_data lines 13-22
load_data(stock, macros_data) ==
    /\ pc = "init"
    /\ stock_series' = DropNaSeries(stock)
    /\ drivers' = macros_data
    /\ pc' = "loaded"
    /\ UNCHANGED <<cutoff_date, outcome, metrics, result_df, df_train, full_X>>
    /\ UNCHANGED <<scan_vars, call_vars>>

\* train lines 24-135, one call
train(cutoff) ==
    /\ pc = "loaded"
    /\ pc' = "trained"
    /\ cutoff_date' = cutoff
    /\ LET cols  == DriverCols(drivers)
           dft   == TrainTable(stock_series, drivers, cutoff)
       IN  /\ df_train' = dft
           /\ IF FrameEmpty(dft)
              THEN \* lines 70-71: return None, None
                   /\ outcome' = "returned"
                   /\ metrics' = None
                   /\ result_df' = None
                   /\ full_X' = None
              ELSE IF Len(cols) = 0
              THEN \* line 77: fit on a feature matrix with no column raises
                   /\ outcome' = "raised"
                   /\ metrics' = None
                   /\ result_df' = None
                   /\ full_X' = None
              ELSE LET m     == Fit(dft, cols)
                       fullx == FullX(drivers, cutoff)
                   IN  IF ColSet(fullx) # ColSet(Select(dft, cols)) \/ Index(fullx) = {}
                       THEN \* line 111: a missing column or no row to predict raises
                            /\ outcome' = "raised"
                            /\ metrics' = None
                            /\ result_df' = None
                            /\ full_X' = fullx
                       ELSE /\ outcome' = "returned"
                            /\ metrics' = Metrics(dft, m, drivers)
                            /\ result_df' = ResultDf(fullx, m, stock_series)
                            /\ full_X' = fullx
    /\ UNCHANGED <<stock_series, drivers>>
    /\ UNCHANGED <<scan_vars, call_vars>>

\* no library function called directly yet
NoCall == [fn |-> "none"]

\* no call of analyze has returned before the current one
NoScan == [called |-> FALSE]

Init ==
    /\ stock_series = EmptySeries
    /\ drivers = <<>>
    /\ cutoff_date = 0
    /\ pc = "init"
    /\ outcome = "none"
    /\ metrics = None
    /\ result_df = None
    /\ df_train = None
    /\ full_X = None
    /\ yahoo = YahooSource(EmptySeries, Universe(EmptySeries, EmptySeries, EmptySeries, EmptySeries))
    /\ fred = FredSource(Universe(EmptySeries, EmptySeries, EmptySeries, EmptySeries))
    /\ rng = 0
    /\ skip_validation = FALSE
    /\ scan_pc = "idle"
    /\ scan_i = 1
    /\ findings = <<>>
    /\ scan_locals = [c \in CodeSet |-> Pending]
    /\ returned = None
    /\ last_call = NoCall
    /\ scan_log = [earlier |-> NoScan, rng |-> 0, accepted |-> {}]

LoadData == \E stock \in TargetInputs, sel \in Selections : load_data(stock, sel)
Train == \E cutoff \in Cutoffs : train(cutoff)

Next == LoadData \/ Train

Spec == Init /\ [][Next]_vars

----------------------------------------------------------------------------
(* The scan: analyze, one step per pass of its loop.                       *)

\* mutant: the list of findings outlives the call
analyze_enter_KeepsFindings(ysrc, fsrc, g, skip) ==
    /\ yahoo' = ysrc
    /\ fred' = fsrc
    /\ rng' = g
    /\ skip_validation' = skip
    /\ IF DOMAIN ysrc[Ticker] = {}
       THEN /\ scan_pc' = "done"
            /\ returned' = <<>>
            /\ UNCHANGED <<scan_i, findings>>
       ELSE /\ scan_pc' = "loop"
            /\ scan_i' = 1
            /\ UNCHANGED <<findings, returned>>
    /\ scan_locals' = [c \in CodeSet |-> Pending]
    /\ UNCHANGED <<train_vars, last_call>>

\* analyze lines 39-56: the call, with what the providers will return, the
\* state of the noise generator and the caller's skip_validation
analyze_enter(ysrc, fsrc, g, skip) ==
    /\ yahoo' = ysrc
    /\ fred' = fsrc
    /\ rng' = g
    /\ skip_validation' = skip
    /\ IF DOMAIN ysrc[Ticker] = {}
       THEN \* lines 49-51: return []
            /\ scan_pc' = "done"
            /\ returned' = <<>>
            /\ UNCHANGED <<scan_i, findings>>
       ELSE /\ scan_pc' = "loop"
            /\ scan_i' = 1
            /\ findings' = <<>>
            /\ UNCHANGED returned
    /\ scan_locals' = [c \in CodeSet |-> Pending]
    /\ UNCHANGED <<train_vars, last_call>>

\* the first call of analyze
analyze_start(ysrc, fsrc, g, skip) ==
    /\ scan_pc = "idle"
    /\ analyze_enter(ysrc, fsrc, g, skip)
    /\ scan_log' = [earlier |-> NoScan, rng |-> g, accepted |-> {}]

\* the same call of analyze after it has returned, with the providers
\* returning the same series and the generator in state g
analyze_again(g) ==
    /\ scan_pc = "done"
    /\ scan_log.earlier = NoScan
    /\ analyze_enter(yahoo, fred, g, skip_validation)
    /\ scan_log' = [earlier  |-> [called          |-> TRUE,
                                 yahoo           |-> yahoo,
                                 fred            |-> fred,
                                 rng             |-> scan_log.rng,
                                 skip_validation |-> skip_validation,
                                 accepted        |-> scan_log.accepted,
                                 returned        |-> returned],
                   rng      |-> g,
                   accepted |-> {}]

\* analyze lines 109-121: what a pass with the locals r leaves behind
scan_pass(code, r) ==
    /\ findings' = IF r.keep THEN Append(findings, Finding(code, r))
                   ELSE findings
    /\ scan_locals' = [scan_locals EXCEPT ![code] = r]
    /\ rng' = r.rng

\* analyze lines 57-121: one pass of the loop over macro_codes
scan_driver ==
    /\ scan_pc = "loop"
    /\ scan_i <= Len(macro_codes)
    /\ scan_pass(macro_codes[scan_i],
                 scan_one(macro_codes[scan_i], yahoo, fred, rng))
    /\ scan_i' = scan_i + 1
    /\ UNCHANGED <<yahoo, fred, skip_validation, scan_pc, returned>>
    /\ UNCHANGED <<train_vars, call_vars>>

\* analyze lines 124-150: the sort, the semantic check and the return;
\* accepted holds the positions the validator approves
analyze_finish(accepted) ==
    /\ scan_pc = "loop"
    /\ scan_i > Len(macro_codes)
    /\ accepted \subseteq 1..Len(findings)
    /\ skip_validation => accepted = 1..Len(findings)
    /\ LET top    == SortFindings(findings)
           judged == [i \in 1..Len(top) |->
                        IF skip_validation
                        THEN Judged(top[i], "None", "Pending Verification")
                        ELSE Judged(top[i],
                                    IF i \in accepted THEN "True" ELSE "False",
                                    "Human Validation")]
       IN  /\ findings' = judged
           /\ returned' = SelectSeq(judged, LAMBDA f : f.is_logical # "False")
    /\ scan_pc' = "done"
    /\ scan_log' = [scan_log EXCEPT !.accepted = accepted]
    /\ UNCHANGED <<yahoo, fred, rng, skip_validation, scan_i, scan_locals>>
    /\ UNCHANGED <<train_vars, last_call>>

AnalyzeStart ==
    \E stock \in StockInputs, u \in Universes, g \in 0..MaxSeed, skip \in BOOLEAN :
        analyze_start(YahooSource(stock, u), FredSource(u), g, skip)
ScanDriver == scan_driver
AnalyzeFinish == \E accepted \in SUBSET (1..Len(macro_codes)) : analyze_finish(accepted)

ScanNext == AnalyzeStart \/ ScanDriver \/ AnalyzeFinish

ScanSpec == Init /\ [][ScanNext]_vars

\* two calls of analyze in a row
AnalyzeAgain == \E g \in 0..MaxSeed : analyze_again(g)

RescanNext == ScanNext \/ AnalyzeAgain

RescanSpec == Init /\ [][RescanNext]_vars

----------------------------------------------------------------------------
(* Direct calls of compute_max_lag_correlation on short series.            *)

CorrLast == 7      \* the series of a direct call are indexed by 0..CorrLast

CorrDays == 0..CorrLast
\* the rows that hold a shifted value at the first positive lag count HeadLen
HeadLen == CorrLast - Lags[2] + 1

RampSeries == [t \in CorrDays |-> F(t)]
SquareSeries == [t \in CorrDays |-> F((t * t) % 3)]
ParitySeries == [t \in CorrDays |-> F(t % 2)]
ConstSeries(c) == [t \in CorrDays |-> F(c)]
SingleSeries == [t \in {0} |-> F(1)]
AllNaNSeries == [t \in CorrDays |-> NaN]
\* constant from the first positive lag on
TailFlatSeries == [t \in CorrDays |-> F(IF t < Lags[2] THEN t ELSE Lags[2])]
\* constant on the rows that reach the overlap of the first positive lag
HeadFlatSeries == [t \in CorrDays |-> F(IF t < HeadLen THEN 0 ELSE t)]
\* s with its odd days, its first rows or its last rows missing
OddHoles(s) == [t \in DOMAIN s |-> IF t % 2 = 1 THEN NaN ELSE s[t]]
TailOnly(s) == [t \in DOMAIN s |-> IF t < Lags[2] THEN NaN ELSE s[t]]
HeadOnly(s) == [t \in DOMAIN s |-> IF t < HeadLen THEN s[t] ELSE NaN]

CorrTargets ==
    {RampSeries, SquareSeries, ConstSeries(1), TailFlatSeries,
     OddHoles(RampSeries), TailOnly(RampSeries), SingleSeries, EmptySeries}
CorrDrivers ==
    {RampSeries, SquareSeries, ParitySeries, HeadFlatSeries,
     ConstSeries(0), ConstSeries(2), OddHoles(ConstSeries(1)),
     HeadOnly(ConstSeries(1)), HeadOnly(SquareSeries), SingleSeries,
     AllNaNSeries, EmptySeries}

\* math_utils.py lines 19-28: the value of corr in each pass of the loop
LagScores(target_series, driver_series) ==
    [i \in 1..Len(Lags) |-> LagCorr(target_series, driver_series, Lags[i])]

\* one call compute_max_lag_correlation(target, driver, max_lookback)
best_lag_correlation(target_series, driver_series, max_lookback) ==
    /\ last_call = NoCall
    /\ last_call' = [fn           |-> "compute_max_lag_correlation",
                     target       |-> target_series,
                     driver       |-> driver_series,
                     max_lookback |-> max_lookback,
                     scores       |-> LagScores(target_series, driver_series),
                     out          |-> compute_max_lag_correlation(
                                          target_series, driver_series,
                                          max_lookback)]
    /\ UNCHANGED <<train_vars, scan_vars, scan_log>>

CorrCall ==
    \E target_series \in CorrTargets, driver_series \in CorrDrivers,
       max_lookback \in {ShortLookback, DefaultLookback} :
        best_lag_correlation(target_series, driver_series, max_lookback)

CorrSpec == Init /\ [][CorrCall]_vars

----------------------------------------------------------------------------
(* Direct calls of fetch_and_align.                                        *)

\* FRED series with missing observations: all of them, every third one (the
\* first included), and a series that starts after the target and ends
\* before it
AllNaNMacro == [t \in MacroDays |-> NaN]
GappyMacro ==
    [t \in MacroDays |-> IF t % (3 * MacroStep) = 0 THEN NaN
                         ELSE F(MacroBase + t)]
LateMacro ==
    [t \in {u \in MacroDays : u >= MinObs \div 3 /\ u <= (2 * MinObs) \div 3}
        |-> F(MacroBase + t)]

\* a target with missing closes
GappyStock ==
    [t \in 0..(MinObs + PreRegime) |-> IF t % 7 = 3 THEN NaN
                                       ELSE F(StockPrice(t))]

AlignStocks == StockInputs \cup {GappyStock}
AlignMacros ==
    {FlatMacro, StockLikeMacro, NegativeMacro, ZeroMacro, EmptySeries,
     AllNaNMacro, GappyMacro, LateMacro}

\* what a call that got stock and macro from the providers, in generator
\* state g, leaves behind when it ends as out
align_end(stock, macro, g, out) ==
    /\ last_call' = [fn    |-> "fetch_and_align",
                     stock |-> stock,
                     macro |-> macro,
                     rng   |-> g,
                     out   |-> out]
    /\ rng' = out.rng

\* one call fetch_and_align(stock_ticker, macro_code)
align(stock, macro, g) ==
    /\ last_call = NoCall
    /\ align_end(stock, macro, g, fetch_and_align(stock, macro, g))
    /\ UNCHANGED <<yahoo, fred, skip_validation, scan_pc, scan_i, findings,
                   scan_locals, returned>>
    /\ UNCHANGED <<train_vars, scan_log>>

AlignCall ==
    \E stock \in AlignStocks, macro \in AlignMacros, g \in 0..MaxSeed :
        align(stock, macro, g)

AlignSpec == Init /\ [][AlignCall]_vars

----------------------------------------------------------------------------
(* Properties of the valuation regressor.                                  *)

Trained == pc = "trained"
HasTable == Trained /\ outcome = "returned" /\ result_df # None
DriverIds == 1..Len(drivers)

\* C2: in the training table and in the full feature table, the driver
\* column at timestamp u holds the value the driver recorded at u - lag, for
\* any sampling of the driver.
C2_ShiftByTime ==
    HasTable =>
        \A i \in DriverIds :
            LET d == drivers[i]
            IN  /\ \A u \in Index(full_X) :
                      /\ (u - d.lag) \in Known(d.series)
                      /\ full_X.rows[u][d.code] = d.series[u - d.lag]
                /\ \A u \in Index(df_train) :
                      /\ (u - d.lag) \in Known(d.series)
                      /\ df_train.rows[u][d.code] = d.series[u - d.lag]

\* the latest timestamp at which every driver's unshifted series is known
CommonKnown == {t \in Time : \A i \in DriverIds : t \in Known(drivers[i].series)}

\* C4: the fair-value table ends exactly max(lag) units after the latest
\* timestamp at which all drivers' unshifted series are known together.
C4_HorizonIsMaxLag ==
    (HasTable /\ CommonKnown # {}) =>
        SetMax(Index(result_df)) = SetMax(CommonKnown) + metrics.Max_Lag

TargetLast == SetMax(DOMAIN stock_series)

\* driver i reaches K >= lag >= 1 units past the target's last timestamp
Projects(i) ==
    /\ DOMAIN stock_series # {}
    /\ Known(drivers[i].series) # {}
    /\ drivers[i].lag >= 1
    /\ SetMax(Known(drivers[i].series)) - TargetLast >= drivers[i].lag

C6_RowsIffAllDrivers ==
    HasTable =>
        Index(result_df) =
            {t \in Time : /\ t >= cutoff_date
                          /\ \A i \in DriverIds : t \in Known(Shifted(drivers[i]))}

C6_Witness ==
    /\ HasTable
    /\ Len(drivers) = 2
    /\ \E t \in Index(result_df) : t \notin DOMAIN stock_series
    /\ \E t \in DOMAIN stock_series, i \in DriverIds :
          /\ t >= cutoff_date
          /\ t \notin Index(result_df)
          /\ t \notin Known(Shifted(drivers[i]))
          /\ \E j \in DriverIds : t \in Known(Shifted(drivers[j]))

\* no timestamp at or after the cutoff holds the target and every driver
NoCompleteRow ==
    ~ \E t \in DOMAIN stock_series :
          /\ t >= cutoff_date
          /\ \A i \in DriverIds : t \in Known(Shifted(drivers[i]))

\* C7: with no complete row after shifting and cutoff filtering, train
\* returns (None, None) and does not raise.
C7_SoftFail ==
    (Trained /\ NoCompleteRow) =>
        outcome = "returned" /\ metrics = None /\ result_df = None

C7_Witness ==
    /\ Trained /\ NoCompleteRow
    /\ Len(drivers) = 2
    /\ DOMAIN stock_series # {}
    /\ \A i \in DriverIds : Known(Shifted(drivers[i])) # {}
    /\ outcome = "returned"

\* C8: train returns a complete pair or (None, None) for every input, an
\* empty driver mapping included, and never ends by raising.
C8_PairOrNone ==
    Trained =>
        /\ outcome = "returned"
        /\ \/ metrics = None /\ result_df = None
           \/ /\ metrics # None /\ result_df # None
              /\ DOMAIN metrics = {"R2", "Intercept", "Coefficients", "Max_Lag"}
              /\ DOMAIN metrics.Coefficients = {drivers[i].code : i \in DriverIds}

\* dev = (a - f) / f for finite a and non-zero finite f, by cross-multiplying
IsRelativeGap(dev, a, f) ==
    /\ IsFinite(dev)
    /\ dev.num * f.num * a.den = (a.num * f.den - f.num * a.den) * dev.den

ActualAt(t) == IF t \in DOMAIN stock_series THEN stock_series[t] ELSE NaN

\* C9 as stated: Deviation is (Actual - Fair_Value) / Fair_Value where Actual
\* is present and missing exactly where Actual is missing; the rows are the
\* fair-value timestamps.
C9_DeviationAsStated ==
    HasTable =>
        /\ Index(result_df) = Index(full_X)
        /\ \A t \in Index(result_df) :
              LET r == result_df.rows[t]
              IN  /\ r["Actual"] = ActualAt(t)
                  /\ IsNaN(r["Deviation"]) <=> IsNaN(r["Actual"])
                  /\ ~IsNaN(r["Actual"]) =>
                        IsRelativeGap(r["Deviation"], r["Actual"], r["Fair_Value"])

\* C9 amended: as stated wherever Fair_Value is not 0; where Fair_Value is 0
\* the division gives NaN (missing) for Actual = 0 and an infinity otherwise.
C9_Deviation ==
    HasTable =>
        /\ Index(result_df) = Index(full_X)
        /\ \A t \in Index(result_df) :
              LET r == result_df.rows[t]
                  a == r["Actual"]
                  f == r["Fair_Value"]
              IN  /\ a = ActualAt(t)
                  /\ IsFinite(f)
                  /\ IsNaN(r["Deviation"]) <=> (IsNaN(a) \/ (a.num = 0 /\ f.num = 0))
                  /\ (~IsNaN(a) /\ f.num # 0) => IsRelativeGap(r["Deviation"], a, f)
                  /\ (~IsNaN(a) /\ f.num = 0 /\ a.num # 0) =>
                        r["Deviation"] = [num |-> Sign(a.num), den |-> 0]

C9_Witness ==
    /\ HasTable
    /\ \E t \in Index(result_df) :
          /\ ~IsNaN(result_df.rows[t]["Actual"])
          /\ IsFinite(result_df.rows[t]["Deviation"])
          /\ result_df.rows[t]["Deviation"].num # 0
    /\ \E t \in Index(result_df) :
          /\ IsNaN(result_df.rows[t]["Actual"])
          /\ IsNaN(result_df.rows[t]["Deviation"])
    /\ \E t \in DOMAIN stock_series : t >= cutoff_date /\ t \notin Index(result_df)

----------------------------------------------------------------------------
(* Properties of the scan.                                                 *)

\* the driver of the pass of the loop that ran last, and its locals
PassDone == scan_pc = "loop" /\ scan_i > 1
LastCode == macro_codes[scan_i - 1]
LastPass == scan_locals[LastCode]
LastScored == PassDone /\ LastPass.status = "scored"

LagSet == {Lags[i] : i \in 1..Len(Lags)}

\* the score of every candidate lag on the table df
WindowScores(df) ==
    Tab([l \in LagSet |-> LagCorr(Column(df, "Stock"), Column(df, "Macro"), l)])

\* |a| > |b| and |a| = |b| for two correlation coefficients
AbsAbove(a, b) == FracGreater(a.num, a.den, b.num, b.den)
AbsEqual(a, b) == a.num = b.num /\ a.den = b.den

\* the lags whose score is valid and not zero
Scoring(scores) == {l \in LagSet : ~scores[l].nan /\ scores[l].num > 0}

\* result is a candidate lag with its score, no valid score is larger in
\* absolute value, and no smaller lag has a valid score as large; with no
\* valid non-zero score the result is the initial (0, 0)
IsSmallestBest(result, scores) ==
    /\ result.best_lag \in LagSet
    /\ \A l \in LagSet :
          ~scores[l].nan =>
              /\ ~AbsAbove(scores[l], result.max_corr)
              /\ AbsEqual(scores[l], result.max_corr) => result.best_lag <= l
    /\ IF Scoring(scores) = {}
       THEN result = [best_lag |-> 0, max_corr |-> CorrZero]
       ELSE result.max_corr = scores[result.best_lag]

TiedBest(result, scores) ==
    /\ result.best_lag > 0
    /\ \E l \in Scoring(scores) :
          l > result.best_lag /\ AbsEqual(scores[l], result.max_corr)
    /\ \E l \in Scoring(scores) : AbsAbove(result.max_corr, scores[l])

Stamp(s) == Tab([t \in DOMAIN s |-> IF IsNaN(s[t]) THEN NaN ELSE F(t)])

\* app.py lines 128-131: the driver series fetched for the valuation
RawSeries(code) == IF is_yahoo(code) THEN yahoo[code] ELSE fred[code]

\* per target day of the scan's table df, the day of the driver value that
\* the lag-L correlation pairs with it (math_utils.py line 21)
ScanPairing(df, lag) == ShiftRows(Stamp(Column(df, "Macro")), lag)

\* per row of train's table, the day of the driver observation in the
\* driver's column, for the driver series handed over with the lag
TrainPairing(stock, code, series, lag) ==
    Column(TrainTable(DropNaSeries(stock),
                      <<[code |-> code, lag |-> lag, series |-> Stamp(series)]>>,
                      RegimeStart),
           code)

\* on every target day both pair, they pair the same driver day
SamePairing(in_scan, in_train) ==
    \A t \in Known(in_scan) \cap DOMAIN in_train : in_scan[t] = in_train[t]

\* C3: for every driver the scan keeps, with its discovered lag L, train
\* pairs each target timestamp with the driver observation that the scan's
\* lag-L correlation paired it with.
C3_SamePairing ==
    (LastScored /\ LastPass.keep) =>
        SamePairing(ScanPairing(LastPass.df, LastPass.long.best_lag),
                    TrainPairing(yahoo[Ticker], LastCode, RawSeries(LastCode),
                                 LastPass.long.best_lag))

\* the aligned observations of a driver at or after the regime start: the
\* days on which the target is known and the driver, after filling, too
AlignedDays(code) ==
    {t \in Known(yahoo[Ticker]) :
        /\ t >= RegimeStart
        /\ IF is_yahoo(code) THEN t \in Known(yahoo[code])
           ELSE Known(fred[code]) # {}}

\* the pass for the driver ended in the except branch (lines 119-121)
Raised(code) == scan_locals[code].status = "error"

\* max(|long|, |short|) > 0.15, on the squares
ScoreAbove(long, short) ==
    \/ FracGreater(long.max_corr.num * 400, long.max_corr.den, 9, 1)
    \/ FracGreater(short.max_corr.num * 400, short.max_corr.den, 9, 1)

Qualifies(code) ==
    /\ Cardinality(AlignedDays(code)) >= MinObs
    /\ ~Raised(code)
    /\ \/ code \in AlwaysInclude
       \/ /\ scan_locals[code].status = "scored"
          /\ ScoreAbove(scan_locals[code].long, scan_locals[code].short)

Passed == {c \in CodeSet : scan_locals[c].status # "pending"}
CodesOf(fs) == {fs[i].code : i \in 1..Len(fs)}

PassRaises ==
    /\ scan_pc = "loop"
    /\ scan_i <= Len(macro_codes)
    /\ scan_i' = scan_i + 1
    /\ scan_locals'[macro_codes[scan_i]].status = "error"

\* C11: a pass that raises leaves the scan running and leaves everything the
\* other passes read or write (the findings so far, the noise generator, the
\* other drivers' locals, the data sources) as it was, so the other drivers'
\* findings are those of a universe without the failing driver.
C11_ErrorIsolated ==
    [][PassRaises =>
          /\ scan_pc' = "loop"
          /\ findings' = findings
          /\ rng' = rng
          /\ yahoo' = yahoo /\ fred' = fred
          /\ \A c \in CodeSet \ {macro_codes[scan_i]} :
                scan_locals'[c] = scan_locals[c]]_vars

\* a finished scan in which a driver raised and drivers scanned before and
\* after it were returned
C11_Witness ==
    /\ scan_pc = "done"
    /\ \E i, j, k \in 1..Len(macro_codes) :
          /\ i < j /\ j < k
          /\ macro_codes[i] \in CodesOf(returned)
          /\ Raised(macro_codes[j])
          /\ macro_codes[k] \in CodesOf(returned)

\* the position of a driver in the scan order
ScanPos(code) == CHOOSE i \in 1..Len(macro_codes) : macro_codes[i] = code

\* C12: in the returned list no finding has a smaller combined score
\* max(|max_corr|, |recent_corr|) than a later one, and of two findings with
\* equal combined score the driver scanned first comes first.
C12_SortedStable ==
    scan_pc = "done" =>
        \A i, j \in 1..Len(returned) :
            i < j =>
                /\ ~FLess(SortKey(returned[i]), SortKey(returned[j]))
                /\ SortKey(returned[i]) = SortKey(returned[j]) =>
                      ScanPos(returned[i].code) < ScanPos(returned[j].code)

\* a returned list with two findings of equal score and with a finding that
\* the sort moved ahead of a driver scanned before it
C12_Witness ==
    /\ scan_pc = "done"
    /\ \E i, j \in 1..Len(returned) :
          i < j /\ SortKey(returned[i]) = SortKey(returned[j])
    /\ \E i, j \in 1..Len(returned) :
          /\ i < j
          /\ ScanPos(returned[i].code) > ScanPos(returned[j].code)
          /\ FLess(SortKey(returned[j]), SortKey(returned[i]))

\* C13: the short-window score is computed on the last 60 rows of the table
\* with the lags capped at 10: no lag above 10 determines it.
C13_ShortCapped ==
    LastScored => LastPass.short.best_lag <= ShortLookback


----------------------------------------------------------------------------
(* Properties of the lag-correlation scanner, on direct calls.             *)

CorrCalled == last_call.fn = "compute_max_lag_correlation"

\* the series holds at least one value and all its values are equal
IsConstant(s) == Known(s) # {} /\ \A t, u \in Known(s) : s[t] = s[u]

Overlap(target_series, shifted_driver) ==
    {t \in DOMAIN target_series \cap DOMAIN shifted_driver :
        ~IsNaN(target_series[t]) /\ ~IsNaN(shifted_driver[t])}

\* s takes one value on S
ConstantOn(s, S) == \A t, u \in S : s[t] = s[u]

\* at this lag the target or the shifted driver has zero variance over the
\* overlap (which takes two observations at least)
ZeroVarOverlap(target_series, shifted_driver) ==
    /\ Cardinality(Overlap(target_series, shifted_driver)) >= 2
    /\ \/ ConstantOn(target_series, Overlap(target_series, shifted_driver))
       \/ ConstantOn(shifted_driver, Overlap(target_series, shifted_driver))

\* C15: at each lag, when either series has zero variance over the overlap
\* of the target and the shifted driver, the lag's correlation is exactly 0,
\* not NaN, also when the series is not constant over its whole length.
C15_OverlapZero ==
    CorrCalled =>
        \A i \in 1..Len(Lags) :
            ZeroVarOverlap(last_call.target,
                           ShiftRows(last_call.driver, Lags[i]))
                => last_call.scores[i] = CorrZero

\* the lag that set the returned best scored NaN
BestIsNaN ==
    \E i \in 1..Len(Lags) :
        /\ Lags[i] = last_call.out.best_lag
        /\ last_call.scores[i].nan

\* C16: a lag whose correlation is NaN is skipped and never becomes the
\* best; the best starts as (0, 0), which is returned when every lag is
\* invalid; the returned correlation is never NaN.
C16_NaNSkipped ==
    CorrCalled =>
        /\ ~last_call.out.max_corr.nan
        /\ BestIsNaN => last_call.out = [best_lag |-> 0, max_corr |-> CorrZero]
        /\ (\A i \in 1..Len(Lags) : last_call.scores[i].nan)
              => last_call.out = [best_lag |-> 0, max_corr |-> CorrZero]
        /\ \A i \in 1..Len(Lags) :
              (Lags[i] = last_call.out.best_lag /\ last_call.out.max_corr # CorrZero)
                  => last_call.scores[i] = last_call.out.max_corr

\* lag 0 scores NaN and a later lag, with a valid score, is returned
C16_Witness ==
    /\ CorrCalled
    /\ last_call.scores[1].nan
    /\ last_call.out.best_lag > 0
    /\ last_call.out.max_corr # CorrZero


----------------------------------------------------------------------------
(* Properties of the series aligner, on direct calls.                      *)

AlignCalled == last_call.fn = "fetch_and_align"
AlignOut == last_call.out

\* either provider returned a series with no observation
EmptyInput == DOMAIN last_call.stock = {} \/ DOMAIN last_call.macro = {}

\* C17: for a non-empty target and a non-empty driver, the call returns a
\* table whose rows are exactly the target's timestamps, with the target's
\* values unmodified and a non-missing driver value in every row.
C17_TargetRows ==
    (AlignCalled /\ ~EmptyInput) =>
        /\ ~AlignOut.raised
        /\ Index(AlignOut.df) = Known(last_call.stock)
        /\ \A t \in Index(AlignOut.df) :
              /\ AlignOut.df.rows[t]["Stock"] = last_call.stock[t]
              /\ ~IsNaN(AlignOut.df.rows[t]["Macro"])

\* C18 as stated: with a target or a driver that has no observation the
\* call fails with an error and returns no table.
C18_EmptyInputError == (AlignCalled /\ EmptyInput) => AlignOut.raised

\* C18: with a target or a driver that has no observation the call raises
\* nothing and returns the empty table (no row, no column), before any noise
\* is drawn.
C18_EmptyTable ==
    (AlignCalled /\ EmptyInput) =>
        /\ ~AlignOut.raised
        /\ AlignOut.df = EmptyFrame
        /\ AlignOut.rng = last_call.rng
        /\ rng = last_call.rng

\* a call with a target that has observations and a driver that has none
C18_Witness ==
    /\ AlignCalled
    /\ Known(last_call.stock) # {}
    /\ DOMAIN last_call.macro = {}
    /\ AlignOut.df = EmptyFrame


----------------------------------------------------------------------------
(* Invalid input.                                                          *)

\* the selection given to load_data holds a driver with a negative lag
NegativeLag == \E i \in DriverIds : drivers[i].lag < 0

\* C19: invalid input is reported at once as an error; in particular train,
\* given a driver selection with a negative lag, raises and produces no
\* result.
C19_NegativeLagRaises ==
    (Trained /\ NegativeLag) =>
        /\ outcome = "raised"
        /\ metrics = None
        /\ result_df = None


----------------------------------------------------------------------------
(* Properties of the findings the scan returns.                            *)

\* the fields of a returned finding in the code, and the fields of the data
\* model (the short window's lag and the combined score under the names a
\* renderer would look up)
FindingFields ==
    {"code", "max_corr", "recent_corr", "best_lag", "sample_size",
     "is_logical", "logic_reason"}
StatedFields ==
    {"code", "best_lag", "max_corr", "recent_lag", "recent_corr",
     "final_score", "sample_size"}

\* C20 as stated: every returned finding carries exactly the driver, the
\* long window's lag and correlation, the short window's lag and
\* correlation, the combined score and the sample size.
C20_FieldsAsStated ==
    scan_pc = "done" =>
        \A i \in 1..Len(returned) : DOMAIN returned[i] = StatedFields

\* C20: every returned finding carries exactly the driver's code, the long
\* window's correlation and lag, the short window's correlation, the sample
\* size and the verdict and reason of the semantic check; neither the short
\* window's lag nor the combined score is stored; the stored correlations
\* are the window scores rounded to four decimals and are never NaN.
C20_FindingFields ==
    scan_pc = "done" =>
        \A i \in 1..Len(returned) :
            /\ DOMAIN returned[i] = FindingFields
            /\ returned[i].code \in CodeSet
            /\ ~IsNaN(returned[i].max_corr)
            /\ ~IsNaN(returned[i].recent_corr)
            /\ returned[i].max_corr
                  = Round4(scan_locals[returned[i].code].long.max_corr)
            /\ returned[i].recent_corr
                  = Round4(scan_locals[returned[i].code].short.max_corr)
            /\ returned[i].best_lag = scan_locals[returned[i].code].long.best_lag
            /\ returned[i].sample_size = NRows(scan_locals[returned[i].code].df)
            /\ returned[i].is_logical \in {"None", "True"}

\* a returned finding whose short window chose another lag than the long
\* one, and a returned finding the semantic check accepted
C20_Witness ==
    /\ scan_pc = "done"
    /\ \E i \in 1..Len(returned) :
          /\ scan_locals[returned[i].code].short.best_lag # returned[i].best_lag
          /\ returned[i].recent_corr # F(0)
    /\ \E i \in 1..Len(returned) :
          /\ returned[i].is_logical = "True"
          /\ returned[i].max_corr # F(0)


----------------------------------------------------------------------------
(* Determinism of the scan.                                                *)

\* two calls of analyze have returned
ScannedTwice == scan_pc = "done" /\ scan_log.earlier # NoScan

\* both calls got the same series, the same skip_validation and the same
\* answers from the validator
SameInputs ==
    /\ scan_log.earlier.yahoo = yahoo
    /\ scan_log.earlier.fred = fred
    /\ scan_log.earlier.skip_validation = skip_validation
    /\ scan_log.earlier.accepted = scan_log.accepted

\* both calls started in the same state of the noise generator
SameSeed == scan_log.earlier.rng = scan_log.rng

\* C21: two calls of the scan with the same target, the same driver data
\* and the same state of the noise generator return identical lists of
\* findings, in order and in values; with the same data the lists differ
\* only when the generator states differ.
C21_Deterministic ==
    (ScannedTwice /\ SameInputs) =>
        (SameSeed => scan_log.earlier.returned = returned)

\* two calls from the same generator state that return the same non-empty
\* list holding a finding of a FRED driver, whose values carry the noise
C21_Witness ==
    /\ ScannedTwice /\ SameInputs /\ SameSeed
    /\ Len(returned) >= 2
    /\ \E i \in 1..Len(returned) : ~is_yahoo(returned[i].code)


----------------------------------------------------------------------------
(* The noise step inside the scan.                                         *)

\* the FRED drivers the loop has passed whose series holds a value
FredPassed == {c \in Passed : ~is_yahoo(c) /\ Known(fred[c]) # {}}

\* C22: the noise step completes for every non-empty target and driver,
\* also for a driver whose mean is zero or negative: the pass for such a
\* driver raises nothing, and with at least 30 aligned observations after
\* the regime start the driver is scored rather than skipped.
C22_NoiseCompletes ==
    \A c \in FredPassed :
        /\ ~Raised(c)
        /\ Cardinality(AlignedDays(c)) >= MinObs
              => scan_locals[c].status = "scored"

============================================================================
